---- MODULE Spec2Model ----
(***************************************************************************)
(* Streaming text-generation client of the text_to_speech frontend.        *)
(*                                                                         *)
(* Spec        the React hook useStreamingTextGeneration (hooks/useApi.js) *)
(*             driven by the submit / reset handlers of TextGenerator.jsx  *)
(*             and fed by the async generator generateTextStream           *)
(*             (services/api.js), one step per macrotask of the event loop.*)
(* SpecReader  the generator generateTextStream alone, at the level of the *)
(*             bytes of the response body, with an arbitrary consumer.     *)
(* SpecRequest ApiService.request under useTextGeneration.                 *)
(* SpecTts, SpecGenerate, SpecNotebook  the requests ApiService builds.    *)
(* SpecAudio   the advanced audio tab of TextToSpeech.jsx.                 *)
(* SpecSpeech  the object URLs of useTextToSpeech.                         *)
(* SpecFiles, SpecChat  the attachments and messages of ChatInterface.     *)
(***************************************************************************)
EXTENDS Integers, Sequences, FiniteSets, TLC

(***************************************************************************)
(* Bounds of the model.                                                    *)
(***************************************************************************)
\* generateStream calls made on one consumer instance
MaxCalls == 2
\* events delivered by all streams together
MaxEvents == 3
\* chunks the network cuts one response body into
MaxChunks == 3
MaxText == 3
MaxRuns == 2
\* env.upload.maxFiles and env.upload.maxFileSize, in units of the model
MaxFiles == 3
MaxFileSize == 1

VARIABLES
    \* useStreamingTextGeneration and its callers
    hook,       \* the six useState cells of useStreamingTextGeneration
    pc,         \* pc[g]: where generateStream call g stands
    nEvents,    \* events delivered so far by all streams together
    ownFrags,   \* content fragments delivered by the call submitted last
    clean,      \* since the last submit: no reset, no fold by an older call
    term,       \* term[g]: the first terminal event call g's loop has folded
    cancelled,  \* cancelled[g]: reset() was called while call g was in flight
    \* one run of generateTextStream
    sent,       \* the bytes of the response body
    off,        \* how many of them reader.read() has handed over
    nReads,     \* chunks read so far
    rpc,        \* where the generator stands
    locked,     \* the reader holds the lock of response.body
    allLines,   \* the lines of all chunks split so far, in order
    pending,    \* lines of the current chunk the for loop has not reached
    yielded,    \* the values yielded so far
    exit,       \* how the generator finished
    \* useTextGeneration and the calls of ApiService.request
    tg,         \* the three useState cells of useTextGeneration
    rq,         \* rq[c]: where call c of request stands and what it holds
    \* one call of a method of ApiService that builds a request
    args,       \* the arguments of the call
    built,      \* what the call has built and sent, or how it failed
    \* the advanced audio tab of the component TextToSpeech
    audio,      \* its useState cells
    ticks,      \* ticks[r]: how often the interval of run r has fired
    \* one mounted component each of TextToSpeech and ChatInterface
    speech,     \* useTextToSpeech: its audioUrl, the object URLs and calls
    chatFiles,  \* ChatInterface: the sizes of its files and showImageUpload
    chat        \* ChatInterface: its messages and its useTextGeneration

hvars == <<hook, pc, nEvents, ownFrags, clean, term, cancelled>>
rvars == <<sent, off, nReads, rpc, locked, allLines, pending, yielded, exit>>
qvars == <<tg, rq>>
pvars == <<args, built>>
avars == <<audio, ticks>>
uvars == <<speech, chatFiles, chat>>
xvars == <<pvars, avars, uvars>>
vars == <<hvars, rvars, qvars, xvars>>

\* no call of a request-building method is modelled
PureIdle == args = <<>> /\ built = <<>>

\* the advanced audio tab after construction
AudioDefaults ==
    [customText |-> "", generating |-> FALSE, result |-> "null", error |-> "null",
     progress |-> 0, status |-> "idle", step |-> "", time |-> ""]

\* the advanced audio tab is not modelled
AudioIdle == audio = AudioDefaults /\ ticks = <<>>

\* audioUrl before any audio was generated: useState(null)
NoUrl == 0

\* useTextToSpeech after construction, with no object URL created
SpeechDefaults ==
    [mounted |-> TRUE, result |-> "null", loading |-> FALSE, error |-> "null",
     audioUrl |-> NoUrl, created |-> 0, revoked |-> {}, calls |-> <<>>]

\* ChatInterface after construction
ChatDefaults ==
    [messages |-> <<>>, loading |-> FALSE, result |-> [kind |-> "null"],
     submits |-> 0]

\* neither component is modelled
\* the attachments of ChatInterface after construction
FilesDefaults == [files |-> <<>>, showImageUpload |-> FALSE]

UiIdle ==
    speech = SpeechDefaults /\ chatFiles = FilesDefaults /\ chat = ChatDefaults

\* nothing but the generation clients is modelled
ExtraIdle == PureIdle /\ AudioIdle /\ UiIdle

Calls == 1..MaxCalls

\* JavaScript null / undefined
Null == "null"

(***************************************************************************)
(* Event envelopes: the parsed JSON objects generateTextStream yields.     *)
(* hasFiles tells whether the envelope carries a files field; kind is the  *)
(* kind of the JSON value, "object" for an envelope.                       *)
(***************************************************************************)
Envelope(t, c, hf, f, u, e) ==
    [kind |-> "object", type |-> t, content |-> c, hasFiles |-> hf, files |-> f,
     usage |-> u, error |-> e]

EvFileInfo == Envelope("file_info", <<>>, TRUE, <<"f1">>, Null, Null)
EvFileInfoBare == Envelope("file_info", <<>>, FALSE, <<>>, Null, Null)
EvContentA == Envelope("content", <<"a">>, FALSE, <<>>, Null, Null)
EvContentB == Envelope("content", <<"b">>, FALSE, <<>>, Null, Null)
EvDone == Envelope("done", <<>>, FALSE, <<>>, "u1", Null)
EvError == Envelope("error", <<>>, FALSE, <<>>, Null, "e1")
EvUnknown == Envelope("ping", <<>>, FALSE, <<>>, Null, Null)
\* {"content": "a"}: an envelope without a type field
EvNoType == Envelope(Null, <<"a">>, FALSE, <<>>, Null, Null)
\* the JSON value null, which JSON.parse accepts like any other value
EvNull == [Envelope(Null, <<>>, FALSE, <<>>, Null, Null) EXCEPT !.kind = "null"]

Events ==
    {EvFileInfo, EvFileInfoBare, EvContentA, EvContentB, EvDone, EvError,
     EvUnknown, EvNoType, EvNull}

\* err.message of the TypeError that event.type throws when event is null
NullEventMessage == "Cannot read properties of null (reading 'type')"

\* err.message of a failure thrown by fetch or by reader.read()
TransportMessages == {"Failed to fetch"}

(***************************************************************************)
(* useStreamingTextGeneration                                              *)
(***************************************************************************)
\* the useState initial values
IdleDefaults ==
    [content |-> <<>>, fileInfo |-> <<>>, usage |-> Null, loading |-> FALSE,
     error |-> Null, isComplete |-> FALSE]

\* a start that leaves the text of the previous generation in place
StartStateKeepsContent(h) ==
    [h EXCEPT !.loading = TRUE, !.error = Null,
              !.fileInfo = <<>>, !.usage = Null, !.isComplete = FALSE]

\* the six setters generateStream calls before it opens the stream
StartState(h) ==
    [h EXCEPT !.loading = TRUE, !.error = Null, !.content = <<>>,
              !.fileInfo = <<>>, !.usage = Null, !.isComplete = FALSE]

\* a file_info case that adds the files to the list it finds
FoldFileInfoAppend(h, ev) ==
    [h EXCEPT !.fileInfo = @ \o (IF ev.hasFiles THEN ev.files ELSE <<>>)]

\* case 'file_info'
FoldFileInfo(h, ev) ==
    [h EXCEPT !.fileInfo = IF ev.hasFiles THEN ev.files ELSE <<>>]

\* a fold that puts the new fragment in front
FoldContentPrepend(h, ev) ==
    [h EXCEPT !.content = ev.content \o h.content]

\* case 'content'
FoldContent(h, ev) ==
    [h EXCEPT !.content = h.content \o ev.content]

\* case 'done'
FoldDone(h, ev) ==
    [h EXCEPT !.usage = ev.usage, !.isComplete = TRUE, !.loading = FALSE]

\* an error case that also clears the text
FoldErrorClearing(h, ev) ==
    [h EXCEPT !.error = ev.error, !.loading = FALSE, !.content = <<>>]

\* case 'error'
FoldError(h, ev) ==
    [h EXCEPT !.error = ev.error, !.loading = FALSE]

\* the body of the for-await loop: switch (event.type)
FoldEvent(h, ev) ==
    CASE ev.type = "file_info" -> FoldFileInfo(h, ev)
      [] ev.type = "content" -> FoldContent(h, ev)
      [] ev.type = "done" -> FoldDone(h, ev)
      [] ev.type = "error" -> FoldError(h, ev)
      [] OTHER -> h

\* the catch block of generateStream
CatchState(h, msg) ==
    [h EXCEPT !.error = msg, !.loading = FALSE]

\* a reset that leaves the spinner on
ResetStateKeepsLoading(h) ==
    [h EXCEPT !.content = <<>>, !.fileInfo = <<>>, !.usage = Null,
              !.error = Null, !.isComplete = FALSE]

\* the reset callback
ResetState(h) ==
    [h EXCEPT !.content = <<>>, !.fileInfo = <<>>, !.usage = Null,
              !.error = Null, !.loading = FALSE, !.isComplete = FALSE]

\* what the component renders besides the spinner
Visible(h) == <<h.content, h.fileInfo, h.usage, h.isComplete, h.error>>

(***************************************************************************)
(* generateTextStream: the pure steps of the read loop.  Bytes are numbers *)
(* 0..255, text is a sequence of code points.                              *)
(***************************************************************************)
\* U+FFFD, what the decoder puts in place of a malformed sequence
Replacement == <<65533>>

RECURSIVE Utf8(_, _, _, _, _, _, _)
\* the UTF-8 decoder over bs from index i: cp is the code point being built,
\* seen of needed continuation bytes are in, the next one must be in lo..hi
Utf8(bs, i, cp, seen, needed, lo, hi) ==
    IF i > Len(bs)
    THEN IF needed # 0 THEN Replacement ELSE <<>>
    ELSE LET b == bs[i] IN
         IF needed = 0
         THEN CASE b <= 127 -> <<b>> \o Utf8(bs, i + 1, 0, 0, 0, 128, 191)
                [] b >= 194 /\ b <= 223 -> Utf8(bs, i + 1, b - 192, 0, 1, 128, 191)
                [] b >= 224 /\ b <= 239 ->
                     Utf8(bs, i + 1, b - 224, 0, 2,
                          IF b = 224 THEN 160 ELSE 128, IF b = 237 THEN 159 ELSE 191)
                [] b >= 240 /\ b <= 244 ->
                     Utf8(bs, i + 1, b - 240, 0, 3,
                          IF b = 240 THEN 144 ELSE 128, IF b = 244 THEN 143 ELSE 191)
                [] OTHER -> Replacement \o Utf8(bs, i + 1, 0, 0, 0, 128, 191)
         ELSE IF b < lo \/ b > hi
              THEN Replacement \o Utf8(bs, i, 0, 0, 0, 128, 191)
              ELSE IF seen + 1 = needed
                   THEN <<cp * 64 + (b - 128)>> \o Utf8(bs, i + 1, 0, 0, 0, 128, 191)
                   ELSE Utf8(bs, i + 1, cp * 64 + (b - 128), seen + 1, needed, 128, 191)

RECURSIVE DecodeRange(_, _, _)
\* the decoder over bs[lo..hi], cut in two before a one-byte character near
\* the middle: the decoder is back in its initial state at every such byte
DecodeRange(bs, lo, hi) ==
    LET cuts == {m \in (lo + 1)..hi : bs[m] <= 127}
        mid == (lo + hi) \div 2
        Dist(m) == IF m >= mid THEN m - mid ELSE mid - m
    IN IF hi - lo < 8 \/ cuts = {}
       THEN Utf8(SubSeq(bs, lo, hi), 1, 0, 0, 0, 128, 191)
       ELSE LET m == CHOOSE c \in cuts : \A d \in cuts : Dist(c) <= Dist(d)
            IN DecodeRange(bs, lo, m - 1) \o DecodeRange(bs, m, hi)

\* decoder.decode(value): no {stream: true}, so every call starts afresh,
\* flushes a sequence left incomplete at the end of the chunk as U+FFFD, and
\* drops a leading byte order mark
Decode(chunk) ==
    LET t == DecodeRange(chunk, 1, Len(chunk))
    IN IF t # <<>> /\ Head(t) = 65279 THEN Tail(t) ELSE t

\* chunk.split('\n'): the pieces between the line feeds, one more than there
\* are line feeds
SplitLines(t) ==
    LET nl == {p \in 1..Len(t) : t[p] = 10}
        Cut(k) == IF k = 0 THEN 0
                  ELSE IF k > Cardinality(nl) THEN Len(t) + 1
                  ELSE CHOOSE p \in nl : Cardinality({q \in nl : q < p}) = k - 1
    IN [k \in 1..(Cardinality(nl) + 1) |-> SubSeq(t, Cut(k - 1) + 1, Cut(k) - 1)]

\* 'data: '
DataMarker == <<100, 97, 116, 97, 58, 32>>

\* a loop body that parses every line
StartsWithAnything(line) == TRUE

\* line.startsWith('data: ')
StartsWithMarker(line) ==
    Len(line) >= Len(DataMarker) /\ SubSeq(line, 1, Len(DataMarker)) = DataMarker

\* line.slice(6)
Payload(line) == SubSeq(line, Len(DataMarker) + 1, Len(line))

(***************************************************************************)
(* JSON.parse.  A parsed value is [kind, str, items]: str holds the text   *)
(* of a string, or the lexeme of a number or literal; items holds the      *)
(* members of an object or the elements of an array as [key, val] (the key *)
(* of an array element is empty).  A parser returns [ok, pos, val], pos    *)
(* being the index after what it has read.                                 *)
(***************************************************************************)
JVal(k, s, it) == [kind |-> k, str |-> s, items |-> it]
NoVal == JVal("none", <<>>, <<>>)
Fail == [ok |-> FALSE, pos |-> 0, val |-> NoVal]
Got(p, v) == [ok |-> TRUE, pos |-> p, val |-> v]

IsWs(c) == c \in {32, 9, 10, 13}
IsDigit(c) == c >= 48 /\ c <= 57
IsHex(c) == IsDigit(c) \/ (c >= 65 /\ c <= 70) \/ (c >= 97 /\ c <= 102)
HexVal(c) == IF IsDigit(c) THEN c - 48 ELSE IF c >= 97 THEN c - 87 ELSE c - 55

RECURSIVE SkipWs(_, _)
SkipWs(s, i) == IF i <= Len(s) /\ IsWs(s[i]) THEN SkipWs(s, i + 1) ELSE i

RECURSIVE SkipDigits(_, _)
SkipDigits(s, i) == IF i <= Len(s) /\ IsDigit(s[i]) THEN SkipDigits(s, i + 1) ELSE i

\* the code point an escape letter stands for, 0 if it is none
Escaped(c) ==
    CASE c \in {34, 92, 47} -> c
      [] c = 98 -> 8
      [] c = 102 -> 12
      [] c = 110 -> 10
      [] c = 114 -> 13
      [] c = 116 -> 9
      [] OTHER -> 0

RECURSIVE StringBody(_, _, _)
\* the characters of a string after its opening quote
StringBody(s, i, acc) ==
    IF i > Len(s) THEN Fail
    ELSE CASE s[i] = 34 -> Got(i + 1, JVal("string", acc, <<>>))
           [] s[i] < 32 -> Fail
           [] s[i] = 92 ->
                IF i + 1 > Len(s) THEN Fail
                ELSE IF s[i + 1] = 117
                     THEN IF i + 5 <= Len(s) /\ \A k \in 2..5 : IsHex(s[i + k])
                          THEN StringBody(s, i + 6,
                                   Append(acc, HexVal(s[i + 2]) * 4096 + HexVal(s[i + 3]) * 256
                                               + HexVal(s[i + 4]) * 16 + HexVal(s[i + 5])))
                          ELSE Fail
                     ELSE IF Escaped(s[i + 1]) # 0
                          THEN StringBody(s, i + 2, Append(acc, Escaped(s[i + 1])))
                          ELSE Fail
           [] OTHER -> StringBody(s, i + 1, Append(acc, s[i]))

\* -? (0 | [1-9][0-9]*) (. [0-9]+)? ([eE] [+-]? [0-9]+)?
ParseNumber(s, i) ==
    LET a == IF i <= Len(s) /\ s[i] = 45 THEN i + 1 ELSE i
        b == IF a <= Len(s) /\ s[a] = 48 THEN a + 1 ELSE SkipDigits(s, a)
        c == IF b <= Len(s) /\ s[b] = 46 THEN SkipDigits(s, b + 1) ELSE b
        e == IF c <= Len(s) /\ s[c] \in {69, 101}
             THEN IF c + 1 <= Len(s) /\ s[c + 1] \in {43, 45} THEN c + 2 ELSE c + 1
             ELSE c
        f == IF e > c THEN SkipDigits(s, e) ELSE c
    IN IF b = a \/ (c > b /\ c = b + 1) \/ (e > c /\ f = e)
       THEN Fail
       ELSE Got(f, JVal("number", SubSeq(s, i, f - 1), <<>>))

ParseLiteral(s, i, word) ==
    IF i + Len(word) - 1 <= Len(s) /\ SubSeq(s, i, i + Len(word) - 1) = word
    THEN Got(i + Len(word), JVal("literal", word, <<>>))
    ELSE Fail

RECURSIVE ParseValue(_, _), ParseMembers(_, _, _), ParseElements(_, _, _)

\* a value starting at index i (white space before it already skipped)
ParseValue(s, i) ==
    IF i > Len(s) THEN Fail
    ELSE CASE s[i] = 123 ->
                LET j == SkipWs(s, i + 1)
                IN IF j <= Len(s) /\ s[j] = 125
                   THEN Got(j + 1, JVal("object", <<>>, <<>>))
                   ELSE ParseMembers(s, j, <<>>)
           [] s[i] = 91 ->
                LET j == SkipWs(s, i + 1)
                IN IF j <= Len(s) /\ s[j] = 93
                   THEN Got(j + 1, JVal("array", <<>>, <<>>))
                   ELSE ParseElements(s, j, <<>>)
           [] s[i] = 34 -> StringBody(s, i + 1, <<>>)
           [] s[i] = 45 \/ IsDigit(s[i]) -> ParseNumber(s, i)
           [] s[i] = 116 -> ParseLiteral(s, i, <<116, 114, 117, 101>>)
           [] s[i] = 102 -> ParseLiteral(s, i, <<102, 97, 108, 115, 101>>)
           [] s[i] = 110 -> ParseLiteral(s, i, <<110, 117, 108, 108>>)
           [] OTHER -> Fail

\* "key" : value, then either a comma and more members or the closing brace
ParseMembers(s, i, acc) ==
    IF i > Len(s) \/ s[i] # 34 THEN Fail
    ELSE LET k == StringBody(s, i + 1, <<>>) IN
         IF ~k.ok THEN Fail
         ELSE LET c == SkipWs(s, k.pos) IN
              IF c > Len(s) \/ s[c] # 58 THEN Fail
              ELSE LET v == ParseValue(s, SkipWs(s, c + 1)) IN
                   IF ~v.ok THEN Fail
                   ELSE LET e == SkipWs(s, v.pos)
                            more == Append(acc, [key |-> k.val.str, val |-> v.val])
                        IN IF e > Len(s) THEN Fail
                           ELSE IF s[e] = 125 THEN Got(e + 1, JVal("object", <<>>, more))
                           ELSE IF s[e] = 44 THEN ParseMembers(s, SkipWs(s, e + 1), more)
                           ELSE Fail

\* value, then either a comma and more elements or the closing bracket
ParseElements(s, i, acc) ==
    LET v == ParseValue(s, i) IN
    IF ~v.ok THEN Fail
    ELSE LET e == SkipWs(s, v.pos)
             more == Append(acc, [key |-> <<>>, val |-> v.val])
         IN IF e > Len(s) THEN Fail
            ELSE IF s[e] = 93 THEN Got(e + 1, JVal("array", <<>>, more))
            ELSE IF s[e] = 44 THEN ParseElements(s, SkipWs(s, e + 1), more)
            ELSE Fail

\* JSON.parse(text): one value with white space around it and nothing else;
\* ok is FALSE where JSON.parse throws a SyntaxError
JsonParse(text) ==
    LET v == ParseValue(text, SkipWs(text, 1)) IN
    IF v.ok /\ SkipWs(text, v.pos) = Len(text) + 1 THEN v ELSE Fail

RECURSIVE LookupFrom(_, _, _)
LookupFrom(items, key, i) ==
    IF i = 0 THEN NoVal
    ELSE IF items[i].key = key THEN items[i].val
    ELSE LookupFrom(items, key, i - 1)

\* data[key] of a parsed object: the last member of that name, else undefined
Field(v, key) ==
    IF v.kind = "object" THEN LookupFrom(v.items, key, Len(v.items)) ELSE NoVal

(***************************************************************************)
(* ApiService.request, ApiService.generateText and useTextGeneration: the  *)
(* values they handle.  A response body is a record: kind is "text" for a  *)
(* body that is no JSON, else the kind of the JSON value.                  *)
(***************************************************************************)
\* env.api.timeout, the default of REACT_APP_API_TIMEOUT
Timeout == 30000

\* an Error object without a status property
NoStatus == 0

\* null in a state cell, undefined for a property that was never set
NoValue == [kind |-> "none", members |-> {}, detail |-> Null, success |-> Null]

\* {"detail": "d1"}
BodyDetail ==
    [kind |-> "object", members |-> {"detail"}, detail |-> "d1", success |-> Null]
\* {"message": "m1"}: an object without detail
BodyPlain ==
    [kind |-> "object", members |-> {"message"}, detail |-> Null, success |-> Null]
\* {}
EmptyObject == [kind |-> "object", members |-> {}, detail |-> Null, success |-> Null]
\* null
BodyNull == [kind |-> "null", members |-> {}, detail |-> Null, success |-> Null]
\* <html>...: no JSON
BodyText == [kind |-> "text", members |-> {}, detail |-> Null, success |-> Null]
\* {"success": true, "generated_text": "t1"}
BodySuccess ==
    [kind |-> "object", members |-> {"success", "generated_text"},
     detail |-> Null, success |-> "true"]
\* {"success": false, "error": "e1"}
BodyFailure ==
    [kind |-> "object", members |-> {"success", "error"},
     detail |-> Null, success |-> "false"]

ErrorBodies == {BodyDetail, BodyPlain, BodyNull, BodyText}
OkBodies == {BodySuccess, BodyFailure, BodyNull, BodyText}

Statuses == {200, 404, 500}

\* response.statusText
StatusText(status) ==
    CASE status = 200 -> "OK"
      [] status = 404 -> "Not Found"
      [] OTHER -> "Internal Server Error"

\* response.ok
Ok(status) == status >= 200 /\ status <= 299

NoError == [name |-> "none", message |-> Null, code |-> Null,
            status |-> NoStatus, data |-> NoValue]

\* what fetch rejects with once controller.abort() has been called
AbortError == [name |-> "AbortError", message |-> "The user aborted a request.",
               code |-> Null, status |-> NoStatus, data |-> NoValue]

\* what fetch, or reading a body, rejects with when the connection fails
NetworkError == [name |-> "TypeError", message |-> "Failed to fetch",
                 code |-> Null, status |-> NoStatus, data |-> NoValue]

\* what response.json() rejects with on a body that is no JSON
JsonSyntaxError == [name |-> "SyntaxError", message |-> "Unexpected token <",
                    code |-> Null, status |-> NoStatus, data |-> NoValue]

\* what reading a property of null throws
NullPropertyError ==
    [name |-> "TypeError",
     message |-> "Cannot read properties of null (reading 'detail')",
     code |-> Null, status |-> NoStatus, data |-> NoValue]

\* `Request timeout after ${this.timeout}ms`
TimeoutMessage == "Request timeout after " \o ToString(Timeout) \o "ms"

\* `HTTP ${response.status}: ${response.statusText}`
HttpMessage(status) == "HTTP " \o ToString(status) \o ": " \o StatusText(status)

\* the timeout error built in the catch block of request
TimeoutError == [name |-> "Error", message |-> TimeoutMessage, code |-> "TIMEOUT",
                 status |-> NoStatus, data |-> NoValue]

\* a catch block that rethrows whatever it caught
CatchRethrow(err) == err

\* the catch block of request: an AbortError becomes the timeout error,
\* anything else is rethrown as it is
Catch(err) == IF err.name = "AbortError" THEN TimeoutError ELSE err

\* await response.json().catch(() => ({}))
ErrorData(body) == IF body.kind = "text" THEN EmptyObject ELSE body

\* the if (!response.ok) block: what request throws for a response that is
\* not ok, after its catch block
NotOkError(status, body) ==
    LET errorData == ErrorData(body) IN
    IF errorData.kind = "null"
    THEN Catch(NullPropertyError)
    ELSE Catch([name |-> "Error",
                message |-> IF errorData.detail # Null THEN errorData.detail
                            ELSE HttpMessage(status),
                code |-> Null, status |-> status, data |-> errorData])

\* the state of useTextGeneration after construction
TgDefaults == [result |-> NoValue, loading |-> FALSE, error |-> Null]

\* a start that leaves the previous result in place
TgStartKeepsResult(h) == [h EXCEPT !.loading = TRUE, !.error = Null]

\* generateText of the hook up to its await
TgStart(h) == [loading |-> TRUE, error |-> Null, result |-> NoValue]

\* a JSON value as a state cell holds it: JSON null is null
AsState(body) == IF body.kind = "null" THEN NoValue ELSE body

\* setResult(response), then the finally block
TgResolve(h, body) == [h EXCEPT !.result = AsState(body), !.loading = FALSE]

\* the catch block, then the finally block
TgReject(h, err) == [h EXCEPT !.error = err.message, !.loading = FALSE]

\* reset of the hook
TgReset(h) == [result |-> NoValue, error |-> Null, loading |-> FALSE]

\* a call of request that has not been made
IdleRequest ==
    [pc |-> "idle", stream |-> FALSE, timer |-> "none", nFetch |-> 0,
     status |-> 0, stalled |-> FALSE, alone |-> FALSE,
     val |-> NoValue, err |-> NoError]

\* no call of request is modelled
RequestIdle ==
    /\ tg = TgDefaults
    /\ rq = [c \in Calls |-> IdleRequest]

InFlight(g) == pc[g] \in {"request", "reading"}

\* the generateStream call submitted last (0 before the first submit)
RECURSIVE LatestFrom(_)
LatestFrom(g) == IF g = 0 \/ pc[g] # "idle" THEN g ELSE LatestFrom(g - 1)
Latest == LatestFrom(MaxCalls)

\* no generator is modelled at the level of bytes
ReaderIdle ==
    /\ sent = <<>> /\ off = 0 /\ nReads = 0 /\ rpc = "idle" /\ locked = FALSE
    /\ allLines = <<>>
    /\ pending = <<>> /\ yielded = <<>> /\ exit = "none"

Init ==
    /\ hook = IdleDefaults
    /\ pc = [g \in Calls |-> "idle"]
    /\ nEvents = 0
    /\ ownFrags = <<>>
    /\ clean = TRUE
    /\ term = [g \in Calls |-> "none"]
    /\ cancelled = [g \in Calls |-> FALSE]
    /\ ReaderIdle
    /\ RequestIdle
    /\ ExtraIdle

\* a step of an older call that changes what is rendered disturbs the latest
Disturb(g) ==
    clean' = (clean /\ (g = Latest \/ Visible(hook') = Visible(hook)))

\* handleSubmit -> generateStream: the submit button is disabled while loading
Submit(g) ==
    /\ pc[g] = "idle"
    /\ g = Latest + 1
    /\ ~hook.loading
    /\ hook' = StartState(hook)
    /\ pc' = [pc EXCEPT ![g] = "request"]
    /\ ownFrags' = <<>>
    /\ clean' = TRUE
    /\ UNCHANGED <<nEvents, term, cancelled, rvars, qvars, xvars>>

\* generateText({stream: true}) resolves; the generator takes the reader
RequestOk(g) ==
    /\ pc[g] = "request"
    /\ pc' = [pc EXCEPT ![g] = "reading"]
    /\ UNCHANGED <<hook, nEvents, ownFrags, clean, term, cancelled, rvars, qvars, xvars>>

\* generateText({stream: true}) rejects; generateStream catches
RequestFail(g) ==
    /\ pc[g] = "request"
    /\ \E msg \in TransportMessages : hook' = CatchState(hook, msg)
    /\ pc' = [pc EXCEPT ![g] = "settled"]
    /\ Disturb(g)
    /\ UNCHANGED <<nEvents, ownFrags, term, cancelled, rvars, qvars, xvars>>

\* reader.read() resolves with a chunk holding the line of event ev; the
\* generator yields the envelope and the for-await body folds it
DeliverEvent(g, ev) ==
    /\ pc[g] = "reading"
    /\ nEvents < MaxEvents
    /\ hook' = IF ev.kind = "null" THEN CatchState(hook, NullEventMessage)
               ELSE FoldEvent(hook, ev)
    /\ pc' = IF ev.kind = "null" THEN [pc EXCEPT ![g] = "settled"] ELSE pc
    /\ nEvents' = nEvents + 1
    /\ ownFrags' = IF ev.type = "content" /\ g = Latest
                   THEN Append(ownFrags, ev.content)
                   ELSE ownFrags
    /\ term' = IF term[g] = "none" /\ ev.type \in {"done", "error"}
               THEN [term EXCEPT ![g] = ev.type]
               ELSE term
    /\ Disturb(g)
    /\ UNCHANGED <<cancelled, rvars, qvars, xvars>>

Deliver(g) == \E ev \in Events : DeliverEvent(g, ev)

\* reader.read() rejects: finally releases the lock, generateStream catches
ReadReject(g) ==
    /\ pc[g] = "reading"
    /\ \E msg \in TransportMessages : hook' = CatchState(hook, msg)
    /\ pc' = [pc EXCEPT ![g] = "settled"]
    /\ Disturb(g)
    /\ UNCHANGED <<nEvents, ownFrags, term, cancelled, rvars, qvars, xvars>>

\* reader.read() resolves with done: the loop breaks and the promise resolves
StreamEnd(g) ==
    /\ pc[g] = "reading"
    /\ pc' = [pc EXCEPT ![g] = "settled"]
    /\ UNCHANGED <<hook, nEvents, ownFrags, clean, term, cancelled, rvars, qvars, xvars>>

\* handleReset -> resetStream
Reset ==
    /\ hook' = ResetState(hook)
    /\ clean' = FALSE
    /\ cancelled' = [g \in Calls |-> cancelled[g] \/ InFlight(g)]
    /\ UNCHANGED <<pc, nEvents, ownFrags, term, rvars, qvars, xvars>>

Next ==
    \/ \E g \in Calls : Submit(g)
    \/ \E g \in Calls : RequestOk(g)
    \/ \E g \in Calls : RequestFail(g)
    \/ \E g \in Calls : Deliver(g)
    \/ \E g \in Calls : ReadReject(g)
    \/ \E g \in Calls : StreamEnd(g)
    \/ Reset

Spec == Init /\ [][Next]_vars

(***************************************************************************)
(* Properties of the streaming consumer, checked under Spec.               *)
(***************************************************************************)
\* a step of call g that can write the hook's state
CallStep(g) ==
    \/ \E ev \in Events : DeliverEvent(g, ev)
    \/ ReadReject(g)
    \/ RequestFail(g)

RECURSIVE Flatten(_)
Flatten(ss) == IF ss = <<>> THEN <<>> ELSE Head(ss) \o Flatten(Tail(ss))

\* C1: isComplete = true and error # null never hold together.
C1_CompleteExcludesError == ~(hook.isComplete /\ hook.error # Null)

\* C2: once a call has folded a done or an error event, every later event of
\* the same stream leaves content, fileInfo, usage, isComplete and error as
\* they were.
C2_PostTerminalNoOp ==
    [][\A g \in Calls, ev \in Events :
         (term[g] # "none" /\ DeliverEvent(g, ev)) => Visible(hook') = Visible(hook)]_vars

\* C3: when the stream of the call submitted last, undisturbed by a reset or
\* by an older call, has delivered content fragments and then done, content is
\* the fragments concatenated in arrival order, usage is the usage of the done
\* event and isComplete is true.
C3_OrderedFold ==
    (Latest # 0 /\ clean /\ term[Latest] = "done") =>
        /\ hook.content = Flatten(ownFrags)
        /\ hook.usage = EvDone.usage
        /\ hook.isComplete

\* two different fragments and then done have been folded, in that order
C3_Witness ==
    /\ Latest # 0 /\ clean /\ term[Latest] = "done"
    /\ ownFrags = <<EvContentA.content, EvContentB.content>>
    /\ hook.content = <<"a", "b">>
    /\ nEvents = 3

\* C4: a server error event, or a failure thrown by the reader, leaves the
\* accumulated content as it was and sets the error message.
C4_ErrorKeepsContent ==
    [][\A g \in Calls :
         (DeliverEvent(g, EvError) \/ ReadReject(g)) =>
             (hook'.content = hook.content /\ hook'.error # Null)]_vars

\* an error event has ended the latest stream after content was shown
C4_Witness ==
    /\ Latest # 0 /\ clean /\ term[Latest] = "error"
    /\ ownFrags # <<>>
    /\ hook.content = Flatten(ownFrags)
    /\ hook.error = EvError.error

\* C5: reset gives exactly the Idle defaults from any state, and a second
\* reset changes nothing.
C5_ResetToIdle ==
    [][Reset => (hook' = IdleDefaults /\ ResetState(hook') = hook')]_vars

\* reset has cleared text that the stream in flight had delivered
C5_Witness ==
    /\ hook = IdleDefaults
    /\ Latest # 0 /\ cancelled[Latest]
    /\ ownFrags # <<>>

\* C6: the rendered state never reflects events of more than one generation
\* call: a step of a call other than the one submitted last never changes it.
C6_SingleGeneration ==
    [][\A g \in Calls :
         (g # Latest /\ CallStep(g)) => Visible(hook') = Visible(hook)]_vars

\* C7: after reset() no step of a generation that was in flight at the reset
\* changes content, fileInfo, usage, isComplete, error or loading.
C7_NoMutationAfterCancel ==
    [][\A g \in Calls : (cancelled[g] /\ CallStep(g)) => hook' = hook]_vars

\* C9: a rejected read, or a byte stream that ends before a done or error
\* event, leaves the consumer failed: error set and isComplete false.
C9_TransportFailureFails ==
    [][\A g \in Calls :
         (term[g] = "none" /\ (ReadReject(g) \/ StreamEnd(g))) =>
             (hook'.error # Null /\ ~hook'.isComplete)]_vars

(***************************************************************************)
(* generateTextStream as a state machine over the bytes of one response    *)
(* body.  The consumer is any for-await loop: it asks for the next value   *)
(* or leaves the loop (break, return or throw), which calls return() on    *)
(* the generator suspended at its yield.                                   *)
(***************************************************************************)
\* data: {"type":"content","content":"é"}\n   (é is the bytes 195 169)
ContentLine ==
    DataMarker \o
    <<123, 34, 116, 121, 112, 101, 34, 58, 34, 99, 111, 110, 116, 101, 110, 116, 34,
      44, 34, 99, 111, 110, 116, 101, 110, 116, 34, 58, 34, 195, 169, 34, 125>> \o <<10>>

\* data: {"type":"content","content":"a"}\n\ndata: {"type":"done"}\n
TwoEvents ==
    DataMarker \o
    <<123, 34, 116, 121, 112, 101, 34, 58, 34, 99, 111, 110, 116, 101, 110, 116, 34,
      44, 34, 99, 111, 110, 116, 101, 110, 116, 34, 58, 34, 97, 34, 125>> \o <<10, 10>> \o
    DataMarker \o
    <<123, 34, 116, 121, 112, 101, 34, 58, 34, 100, 111, 110, 101, 34, 125>> \o <<10>>

\* data: 1\nevent: 7\ndata: {x\ndata: 2\n   (the third line is no JSON)
Mixed ==
    DataMarker \o <<49, 10>> \o <<101, 118, 101, 110, 116, 58, 32, 55, 10>> \o
    DataMarker \o <<123, 120, 10>> \o DataMarker \o <<50, 10>>

\* the response bodies a server sends
Streams == {ContentLine, TwoEvents, Mixed}

\* the line makes the loop body yield: it has the marker and the rest parses
Yields(line) == StartsWithMarker(line) /\ JsonParse(Payload(line)).ok

RECURSIVE FirstYieldAbandon(_, _)
\* a loop that gives up the rest of the chunk at a line that does not parse
FirstYieldAbandon(lines, i) ==
    IF i > Len(lines) THEN 0
    ELSE IF Yields(lines[i]) THEN i
    ELSE IF StartsWithMarker(lines[i]) THEN 0
    ELSE FirstYieldAbandon(lines, i + 1)

RECURSIVE FirstYield(_, _)
\* index of the first line from i on that yields, 0 if there is none
FirstYield(lines, i) ==
    IF i > Len(lines) THEN 0
    ELSE IF Yields(lines[i]) THEN i
    ELSE FirstYield(lines, i + 1)

\* for (const line of lines): run the loop over lines up to the next yield,
\* or to its end and back to reader.read()
RunLines(lines) ==
    LET k == FirstYield(lines, 1) IN
    IF k = 0
    THEN /\ rpc' = "read"
         /\ pending' = <<>>
         /\ yielded' = yielded
    ELSE /\ rpc' = "yield"
         /\ pending' = SubSeq(lines, k + 1, Len(lines))
         /\ yielded' = Append(yielded, JsonParse(Payload(lines[k])).val)

\* a generator without the finally block: the lock is released only when
\* the byte stream ends
LockAfterExitNoFinally(how) == how # "end"

\* the lock once the generator has left its try block by way how:
\* finally { reader.releaseLock() }
LockAfterExit(how) == FALSE

InitReader ==
    /\ hook = IdleDefaults
    /\ pc = [g \in Calls |-> "idle"]
    /\ nEvents = 0
    /\ ownFrags = <<>>
    /\ clean = TRUE
    /\ term = [g \in Calls |-> "none"]
    /\ cancelled = [g \in Calls |-> FALSE]
    /\ sent \in Streams
    /\ off = 0
    /\ nReads = 0
    /\ rpc = "request"
    /\ locked = FALSE
    /\ allLines = <<>>
    /\ pending = <<>>
    /\ yielded = <<>>
    /\ exit = "none"
    /\ RequestIdle
    /\ ExtraIdle

\* await this.generateText({stream: true}) resolves: response.body.getReader()
ReaderOpen ==
    /\ rpc = "request"
    /\ rpc' = "read"
    /\ locked' = TRUE
    /\ UNCHANGED <<hvars, qvars, xvars, allLines, sent, off, nReads, pending, yielded, exit>>

\* await this.generateText({stream: true}) rejects before the try block
ReaderRequestFail ==
    /\ rpc = "request"
    /\ rpc' = "finished"
    /\ exit' = "request"
    /\ UNCHANGED <<hvars, qvars, xvars, allLines, sent, off, nReads, locked, pending, yielded>>

\* reader.read() resolves with the next n bytes: decode, split, run the loop
ReaderRead ==
    /\ rpc = "read"
    /\ \E n \in 1..(Len(sent) - off) :
        /\ nReads + 1 < MaxChunks \/ n = Len(sent) - off
        /\ off' = off + n
        /\ allLines' = allLines \o SplitLines(Decode(SubSeq(sent, off + 1, off + n)))
        /\ RunLines(SplitLines(Decode(SubSeq(sent, off + 1, off + n))))
    /\ nReads' = nReads + 1
    /\ UNCHANGED <<hvars, qvars, xvars, sent, locked, exit>>

\* reader.read() resolves with done: break, then finally
ReaderEnd ==
    /\ rpc = "read"
    /\ off = Len(sent)
    /\ rpc' = "finished"
    /\ exit' = "end"
    /\ locked' = LockAfterExit("end")
    /\ UNCHANGED <<hvars, qvars, xvars, allLines, sent, off, nReads, pending, yielded>>

\* reader.read() rejects: finally, then the error reaches the consumer
ReaderReject ==
    /\ rpc = "read"
    /\ rpc' = "finished"
    /\ exit' = "reject"
    /\ locked' = LockAfterExit("reject")
    /\ UNCHANGED <<hvars, qvars, xvars, allLines, sent, off, nReads, pending, yielded>>

\* the consumer asks for the next value: the loop goes on after the yield
ConsumerNext ==
    /\ rpc = "yield"
    /\ RunLines(pending)
    /\ UNCHANGED <<hvars, qvars, xvars, allLines, sent, off, nReads, locked, exit>>

\* the consumer leaves its loop: return() ends the generator at the yield
ConsumerReturn ==
    /\ rpc = "yield"
    /\ rpc' = "finished"
    /\ exit' = "return"
    /\ locked' = LockAfterExit("return")
    /\ UNCHANGED <<hvars, qvars, xvars, allLines, sent, off, nReads, pending, yielded>>

NextReader ==
    \/ ReaderOpen
    \/ ReaderRequestFail
    \/ ReaderRead
    \/ ReaderEnd
    \/ ReaderReject
    \/ ConsumerNext
    \/ ConsumerReturn

SpecReader == InitReader /\ [][NextReader]_vars

(***************************************************************************)
(* Properties of the reader, checked under SpecReader.                     *)
(***************************************************************************)
\* C8: no finished generator still holds the reader lock, whichever way it
\* left the loop: end of the byte stream, a rejected read, or the consumer
\* ending the iteration early.
C8_LockReleased == rpc = "finished" => ~locked

\* the consumer left the loop at a yield, after the lock had been taken
C8_Witness == rpc = "finished" /\ exit = "return" /\ yielded # <<>> /\ off > 0

\* C10: however the bytes of one valid content line are cut into chunks, the
\* reader yields exactly one content event carrying the original text.
C10_AnySplitOneEvent ==
    (rpc = "finished" /\ exit = "end" /\ sent = ContentLine) =>
        /\ Len(yielded) = 1
        /\ Field(yielded[1], <<116, 121, 112, 101>>)
             = JVal("string", <<99, 111, 110, 116, 101, 110, 116>>, <<>>)
        /\ Field(yielded[1], <<99, 111, 110, 116, 101, 110, 116>>)
             = JVal("string", <<233>>, <<>>)

\* the lines the for loop has gone through so far
Processed == SubSeq(allLines, 1, Len(allLines) - Len(pending))

\* the line carries the marker and what follows it is no JSON
Malformed(line) == StartsWithMarker(line) /\ ~JsonParse(Payload(line)).ok

RECURSIVE WithoutMalformed(_)
WithoutMalformed(lines) ==
    IF lines = <<>> THEN <<>>
    ELSE (IF Malformed(Head(lines)) THEN <<>> ELSE <<Head(lines)>>)
         \o WithoutMalformed(Tail(lines))

RECURSIVE EventsOf(_)
\* the events of the lines that carry the marker and parse, in order
EventsOf(lines) ==
    IF lines = <<>> THEN <<>>
    ELSE (IF Yields(Head(lines)) THEN <<JsonParse(Payload(Head(lines))).val>> ELSE <<>>)
         \o EventsOf(Tail(lines))

\* C11: a marked line that is no JSON is dropped without ending the generator
\* and without touching any other event: what has been yielded is what the
\* same lines with the malformed ones removed yield.
C11_MalformedDropped ==
    /\ yielded = EventsOf(WithoutMalformed(Processed))
    /\ (rpc = "finished" /\ off = Len(sent)) => exit \in {"end", "reject", "return"}

\* the whole of Mixed has been read: the events before and after its
\* malformed line have both been yielded
C11_Witness ==
    /\ rpc = "finished" /\ exit = "end" /\ sent = Mixed
    /\ \E i \in 1..Len(Processed) : Malformed(Processed[i])
    /\ Len(yielded) = 2
    /\ yielded[1].str = <<49>> /\ yielded[2].str = <<50>>

\* d, a, t, a, colon, space
HasDataPrefix(line) ==
    /\ Len(line) >= 6
    /\ <<line[1], line[2], line[3], line[4], line[5], line[6]>> = <<100, 97, 116, 97, 58, 32>>

RECURSIVE CountData(_)
CountData(lines) ==
    IF lines = <<>> THEN 0
    ELSE (IF HasDataPrefix(Head(lines)) THEN 1 ELSE 0) + CountData(Tail(lines))

\* C12: a line that does not start with the marker never produces an event:
\* there are at most as many events as lines that start with the marker.
C12_OnlyDataLines == Len(yielded) <= CountData(Processed)

\* the loop has gone through the line event: 7, whose tail is JSON, and
\* through the empty line between two events, and yielded nothing for them
C12_Witness ==
    /\ rpc = "finished" /\ exit = "end" /\ sent = Mixed
    /\ \E i \in 1..Len(Processed) :
         ~HasDataPrefix(Processed[i]) /\ JsonParse(Payload(Processed[i])).ok
    /\ Len(yielded) < Len(Processed)

(***************************************************************************)
(* ApiService.request under generateText (stream false, called by the     *)
(* hook useTextGeneration) and under generateTextStream (stream true), as  *)
(* a state machine.  Time is not counted: the timer of a call may fire at  *)
(* any moment it is armed.                                                 *)
(***************************************************************************)
Started == {c \in Calls : rq[c].pc # "idle"}

Pending(c) == rq[c].pc \in {"fetch", "errbody", "body", "open"}

\* a failed call that is sent again, up to env.api.retryAttempts times
OnFailureRetry(r, err) ==
    IF r.nFetch < 3
    THEN [r EXCEPT !.pc = "fetch", !.timer = "armed", !.nFetch = @ + 1,
                   !.status = 0, !.stalled = FALSE]
    ELSE [r EXCEPT !.pc = "failed", !.err = err]

\* throw error: the call is over, nothing is sent again
OnFailure(r, err) == [r EXCEPT !.pc = "failed", !.err = err]

\* a response whose timer is left running
TimerLeftRunning(t) == t

\* clearTimeout(timeoutId) once fetch has resolved
TimerAfterHeaders(t) == "cleared"

\* call c goes to r; a call of the hook writes the hook's cells, so the
\* other calls are no longer alone with them
Step(c, r) ==
    rq' = [d \in Calls |->
             IF d = c THEN r
             ELSE IF rq[c].stream THEN rq[d]
             ELSE [rq[d] EXCEPT !.alone = FALSE]]

\* the call rejects with err: the hook runs its catch and finally blocks
Reject(c, r, err) ==
    /\ Step(c, OnFailure(r, err))
    /\ tg' = IF rq[c].stream THEN tg ELSE TgReject(tg, err)

\* handleSubmit: generateText (stream false) or generateStream (stream true)
\* up to await fetch; the submit button is disabled while loading
Call(c, stream) ==
    /\ rq[c].pc = "idle"
    /\ c = Cardinality(Started) + 1
    /\ stream \/ ~tg.loading
    /\ rq' = [d \in Calls |->
                IF d = c
                THEN [rq[c] EXCEPT !.pc = "fetch", !.stream = stream,
                                   !.timer = "armed", !.nFetch = @ + 1,
                                   !.alone = TRUE]
                ELSE IF stream THEN rq[d]
                ELSE [rq[d] EXCEPT !.alone = FALSE]]
    /\ tg' = IF stream THEN tg ELSE TgStart(tg)
    /\ UNCHANGED <<hvars, rvars, xvars>>

\* setTimeout(() => controller.abort(), this.timeout) fires: what call c is
\* waiting for rejects with an AbortError
TimerFires(c) ==
    /\ rq[c].timer = "armed"
    /\ Pending(c)
    /\ LET r == [rq[c] EXCEPT !.timer = "fired"] IN
       CASE rq[c].pc = "fetch" -> Reject(c, r, Catch(AbortError))
         [] rq[c].pc = "errbody" -> Reject(c, r, NotOkError(rq[c].status, BodyText))
         [] OTHER -> Reject(c, r, AbortError)
    /\ UNCHANGED <<hvars, rvars, xvars>>

\* fetch rejects: no connection
FetchRejects(c) ==
    /\ rq[c].pc = "fetch"
    /\ Reject(c, [rq[c] EXCEPT !.timer = "cleared"], Catch(NetworkError))
    /\ UNCHANGED <<hvars, rvars, xvars>>

\* fetch resolves with the status line and the headers; the server may
\* never complete the body (stalled)
Headers(c, status, stalled) ==
    /\ rq[c].pc = "fetch"
    /\ rq' = [rq EXCEPT ![c] =
                [@ EXCEPT !.timer = TimerAfterHeaders(@),
                          !.status = status,
                          !.stalled = stalled,
                          !.pc = IF ~Ok(status) THEN "errbody"
                                 ELSE IF rq[c].stream THEN "open" ELSE "body"]]
    /\ UNCHANGED <<tg, hvars, rvars, xvars>>

\* the body of a response that is not ok has been read
ErrorBody(c, body) ==
    /\ rq[c].pc = "errbody"
    /\ ~rq[c].stalled
    /\ Reject(c, rq[c], NotOkError(rq[c].status, body))
    /\ UNCHANGED <<hvars, rvars, xvars>>

\* generateText: await response.json() settles, then the hook's setResult
\* or catch
Body(c, body) ==
    /\ rq[c].pc = "body"
    /\ ~rq[c].stalled
    /\ IF body.kind = "text"
       THEN Reject(c, rq[c], JsonSyntaxError)
       ELSE /\ Step(c, [rq[c] EXCEPT !.pc = "resolved", !.val = body])
            /\ tg' = TgResolve(tg, body)
    /\ UNCHANGED <<hvars, rvars, xvars>>

\* the connection fails while the body is read
BodyBreaks(c) ==
    /\ rq[c].pc = "body"
    /\ ~rq[c].stalled
    /\ Reject(c, rq[c], NetworkError)
    /\ UNCHANGED <<hvars, rvars, xvars>>

\* the stream of a streaming call is over: after a done event, after an
\* error event, or because a read was rejected
StreamOver(c, how) ==
    /\ rq[c].pc = "open"
    /\ ~rq[c].stalled
    /\ IF how = "broken"
       THEN Reject(c, rq[c], NetworkError)
       ELSE /\ Step(c, [rq[c] EXCEPT !.pc = "resolved"])
            /\ tg' = tg
    /\ UNCHANGED <<hvars, rvars, xvars>>

\* handleReset -> reset of useTextGeneration
ResetText ==
    /\ tg' = TgReset(tg)
    /\ rq' = [d \in Calls |-> [rq[d] EXCEPT !.alone = FALSE]]
    /\ UNCHANGED <<hvars, rvars, xvars>>

InitRequest ==
    /\ hook = IdleDefaults
    /\ pc = [g \in Calls |-> "idle"]
    /\ nEvents = 0
    /\ ownFrags = <<>>
    /\ clean = TRUE
    /\ term = [g \in Calls |-> "none"]
    /\ cancelled = [g \in Calls |-> FALSE]
    /\ ReaderIdle
    /\ RequestIdle
    /\ ExtraIdle

NextRequest ==
    \/ \E c \in Calls : \E stream \in BOOLEAN : Call(c, stream)
    \/ \E c \in Calls : TimerFires(c)
    \/ \E c \in Calls : FetchRejects(c)
    \/ \E c \in Calls : \E status \in Statuses : \E stalled \in BOOLEAN :
         Headers(c, status, stalled)
    \/ \E c \in Calls : \E body \in ErrorBodies : ErrorBody(c, body)
    \/ \E c \in Calls : \E body \in OkBodies : Body(c, body)
    \/ \E c \in Calls : BodyBreaks(c)
    \/ \E c \in Calls : \E how \in {"done", "error", "broken"} : StreamOver(c, how)
    \/ ResetText

SpecRequest == InitRequest /\ [][NextRequest]_vars

\* C13: a non-streaming call that is alone with the hook (no reset and no
\* other call since it started) shows no intermediate result: result is null
\* while it is in flight; once it has settled either result is the JSON body
\* and error is null, or error is set and result is null.
C13_NoIntermediateResult ==
    \A c \in Calls :
        (~rq[c].stream /\ rq[c].alone) =>
            /\ Pending(c) => tg.result = NoValue
            /\ rq[c].pc = "resolved" =>
                 /\ tg.result = IF rq[c].val = BodyNull THEN NoValue ELSE rq[c].val
                 /\ tg.error = Null
            /\ rq[c].pc = "failed" =>
                 /\ tg.error = rq[c].err.message /\ tg.error # Null
                 /\ tg.result = NoValue

\* a second call is in flight after the first one left its result in the hook
C13_Witness ==
    \E c, d \in Calls :
        /\ c # d /\ ~rq[c].stream /\ rq[c].pc = "resolved" /\ rq[c].val = BodySuccess
        /\ ~rq[d].stream /\ rq[d].alone /\ rq[d].pc = "body"
        /\ tg.result = NoValue /\ tg.loading

\* C14: a call whose timer fired fails with code TIMEOUT and the message
\* Request timeout after <N>ms, and no other failure has that code or that
\* message.
C14_TimeoutDistinct ==
    \A c \in Calls :
        /\ rq[c].timer = "fired" =>
             /\ rq[c].pc = "failed"
             /\ rq[c].err.code = "TIMEOUT"
             /\ rq[c].err.message = "Request timeout after 30000ms"
             /\ rq[c].err.status = NoStatus
        /\ (rq[c].pc = "failed" /\ rq[c].timer # "fired") =>
             /\ rq[c].err.code # "TIMEOUT"
             /\ rq[c].err.message # "Request timeout after 30000ms"

\* one call has timed out, another has failed with an HTTP error
C14_Witness ==
    \E c, d \in Calls :
        /\ rq[c].timer = "fired" /\ rq[c].err.code = "TIMEOUT"
        /\ rq[d].pc = "failed" /\ rq[d].err.status = 500

\* C15: a call whose response has status >= 400 fails, once it is over, with
\* an error that has the status in status and the error body in data.
C15_HttpErrorCarriesStatus ==
    \A c \in Calls :
        (rq[c].status >= 400 /\ ~Pending(c)) =>
            /\ rq[c].pc = "failed"
            /\ rq[c].err.status = rq[c].status
            /\ rq[c].err.data.kind = "object"

\* C16 as stated: a streaming call is never failed by the request timeout.
C16_StreamNeverTimedOut ==
    \A c \in Calls :
        rq[c].stream => (rq[c].timer # "fired" /\ rq[c].err.code # "TIMEOUT")

\* C16: on both paths the timeout runs only until fetch has resolved: a call
\* that has its response headers, a stream that is open included, has its
\* timer cleared and never fails with the timeout error.
C16_NoTimeoutAfterHeaders ==
    \A c \in Calls :
        rq[c].status # 0 => (rq[c].timer = "cleared" /\ rq[c].err.code # "TIMEOUT")

\* one streaming call has timed out waiting for the headers, another one has
\* an open stream that the server leaves stalled
C16_Witness ==
    \E c, d \in Calls :
        /\ rq[c].stream /\ rq[c].pc = "failed" /\ rq[c].err = TimeoutError
        /\ rq[d].stream /\ rq[d].pc = "open" /\ rq[d].stalled
        /\ rq[d].timer = "cleared"

\* C17: a non-streaming call never stays pending forever: while it is
\* pending, either the server still completes what the call waits for or the
\* timer is armed.
C17_AlwaysTerminates ==
    \A c \in Calls :
        (~rq[c].stream /\ Pending(c)) => (~rq[c].stalled \/ rq[c].timer = "armed")

\* C18: every call that has started has issued exactly one HTTP request,
\* whatever its outcome.
C18_OneRequestPerCall ==
    \A c \in Calls : rq[c].pc # "idle" => rq[c].nFetch = 1

\* a call of the hook has failed on the network and a streaming call is over
C18_Witness ==
    \E c, d \in Calls :
        /\ ~rq[c].stream /\ rq[c].pc = "failed" /\ rq[c].err = NetworkError
        /\ rq[c].nFetch = 1
        /\ rq[d].stream /\ rq[d].pc = "resolved" /\ rq[d].nFetch = 1

\* C20: after a non-streaming call has resolved with a body that has
\* success: false, the hook's error holds a message.
C20_FailureBodySurfaced ==
    \A c \in Calls :
        (~rq[c].stream /\ rq[c].alone /\ rq[c].pc = "resolved"
            /\ rq[c].val.success = "false") => tg.error # Null

\* C19: the step that starts a streaming generation leaves content empty,
\* fileInfo empty, usage null, isComplete false and error null, whatever the
\* state before; no event of the new call has been folded by then.
C19_StartResets ==
    [][\A g \in Calls :
          Submit(g) =>
              /\ hook'.content = <<>> /\ hook'.fileInfo = <<>>
              /\ hook'.usage = Null /\ hook'.isComplete = FALSE
              /\ hook'.error = Null
              /\ term[g] = "none" /\ pc[g] = "idle"]_vars

\* a second generation has started after the first one completed,
\* and nothing of the first one is left
C19_Witness ==
    /\ Latest = 2 /\ pc[2] = "request" /\ clean
    /\ term[1] = "done"
    /\ nEvents >= 2
    /\ Visible(hook) = Visible(IdleDefaults)

\* C23: an event whose type is none of file_info, content, done, error
\* (an envelope without type included) changes none of the six state cells,
\* and the call goes on reading.
C23_UnknownIsNoOp ==
    [][\A g \in Calls, ev \in Events :
          (ev.type \notin {"file_info", "content", "done", "error"}
              /\ DeliverEvent(g, ev)) =>
              (hook' = hook /\ pc'[g] = "reading")]_vars

C26_SettledNotLoading ==
    (Latest # 0 /\ \A g \in Calls : ~InFlight(g)) => ~hook.loading

(***************************************************************************)
(* ApiService.textToSpeech: the request body.  Argument values are tokens: *)
(* Undefined for an argument that is not passed, Null for null, "" for the *)
(* empty string, any other string for a value that is truthy.  An object   *)
(* is a function from its keys to their values.                            *)
(***************************************************************************)
Undefined == "undefined"

\* the truthiness of a value
Truthy(v) == v \notin {Undefined, Null, ""}

\* a default parameter value: it applies to undefined only
Default(v, d) == IF v = Undefined THEN d ELSE v

TtsRequired == {"text", "voice", "speed", "provider"}

TtsOptional ==
    {"model", "system_prompt", "instructions", "response_format",
     "prompt_prefix", "voice_config", "language_code"}

\* the destructuring defaults of textToSpeech
TtsDefaults ==
    [text |-> Undefined, voice |-> "alloy", speed |-> "1.0", provider |-> "openai",
     model |-> Null, system_prompt |-> "", instructions |-> "",
     response_format |-> "mp3", prompt_prefix |-> "", voice_config |-> Null,
     language_code |-> "en-US"]

\* the parameters of textToSpeech after defaulting
TtsParams(a) == [k \in DOMAIN TtsDefaults |-> Default(a[k], TtsDefaults[k])]

\* an optional field that is added whenever its value is truthy
TtsIncludesTruthy(p, k) == Truthy(p[k])

\* the if statements that add the optional fields
TtsIncludes(p, k) ==
    CASE k = "response_format" -> Truthy(p[k]) /\ p[k] # "mp3"
      [] k = "language_code" -> Truthy(p[k]) /\ p[k] # "en-US"
      [] OTHER -> Truthy(p[k])

\* requestBody as textToSpeech fills it
TtsRequestBody(a) ==
    LET p == TtsParams(a)
        keys == TtsRequired \cup {k \in TtsOptional : TtsIncludes(p, k)}
    IN [k \in keys |-> p[k]]

\* JSON.stringify of an object: a key whose value is undefined is left out
Stringify(obj) == [k \in {j \in DOMAIN obj : obj[j] # Undefined} |-> obj[k]]

\* the calls of textToSpeech that are tried
TtsCalls ==
    [text : {Undefined, "", "hello"},
     voice : {Undefined, "nova"},
     speed : {Undefined, "1.5"},
     provider : {Undefined, "gemini"},
     model : {Undefined, Null, "tts-1"},
     system_prompt : {Undefined, "", "sp"},
     instructions : {Undefined, "in"},
     response_format : {Undefined, "", "mp3", "wav"},
     prompt_prefix : {Undefined, "pp"},
     voice_config : {Undefined, Null, "cfg"},
     language_code : {Undefined, "", "en-US", "vi-VN"}]

InitTts ==
    /\ hook = IdleDefaults
    /\ pc = [g \in Calls |-> "idle"]
    /\ nEvents = 0
    /\ ownFrags = <<>>
    /\ clean = TRUE
    /\ term = [g \in Calls |-> "none"]
    /\ cancelled = [g \in Calls |-> FALSE]
    /\ ReaderIdle
    /\ RequestIdle
    /\ args \in TtsCalls
    /\ built = <<>>
    /\ AudioIdle
    /\ UiIdle

\* textToSpeech up to this.request('/api/tts', ...)
BuildTts ==
    /\ built = <<>>
    /\ built' = Stringify(TtsRequestBody(args))
    /\ UNCHANGED <<hvars, rvars, qvars, args, avars, uvars>>

NextTts == BuildTts

SpecTts == InitTts /\ [][NextTts]_vars

\* C21 as stated: the body has text, voice, speed and provider, and has an
\* optional field exactly when the value passed for it is truthy.
C21_OptionalIffTruthy ==
    built # <<>> =>
        /\ TtsRequired \subseteq DOMAIN built
        /\ \A k \in TtsOptional : k \in DOMAIN built <=> Truthy(args[k])

\* C21: the body has voice, speed and provider, has text when a text is
\* passed, has model, system_prompt, instructions, prompt_prefix and
\* voice_config exactly when the value passed is truthy, has response_format
\* exactly when it is truthy and not 'mp3', and language_code exactly when it
\* is truthy and not 'en-US'; a field it has holds the value passed.
C21_OptionalIffNotDefault ==
    built # <<>> =>
        /\ {"voice", "speed", "provider"} \subseteq DOMAIN built
        /\ "text" \in DOMAIN built <=> args.text # Undefined
        /\ \A k \in TtsOptional \ {"response_format", "language_code"} :
             k \in DOMAIN built <=> args[k] \notin {Undefined, Null, ""}
        /\ "response_format" \in DOMAIN built <=>
             args.response_format \notin {Undefined, Null, "", "mp3"}
        /\ "language_code" \in DOMAIN built <=>
             args.language_code \notin {Undefined, Null, "", "en-US"}
        /\ \A k \in DOMAIN built :
             built[k] = IF args[k] = Undefined THEN TtsDefaults[k] ELSE args[k]

\* a body built from a call that passes 'mp3' and a language other than en-US
C21_Witness ==
    /\ built # <<>>
    /\ args.response_format = "mp3" /\ args.language_code = "vi-VN"
    /\ args.model = "tts-1" /\ args.voice_config = Null
    /\ DOMAIN built = TtsRequired \cup {"model", "language_code"}

(***************************************************************************)
(* ApiService.generateText and generateTextStream: the form they send.  A  *)
(* call is a record of the arguments that are passed; numbers are written  *)
(* as their decimal string.  A form is a sequence of <<name, value>>.      *)
(***************************************************************************)
\* the arguments with one more, k, taking each of the values vals
WithArg(calls, k, vals) ==
    calls \cup {[j \in DOMAIN r \cup {k} |-> IF j = k THEN v ELSE r[j]] :
                   r \in calls, v \in vals}

\* argument k is passed and is not undefined
Passed(a, k) == k \in DOMAIN a /\ (k \in {"files", "stream"} \/ a[k] # Undefined)

\* the destructuring defaults of generateText
TextDefaults ==
    [prompt |-> Undefined, maxTokens |-> "100", stream |-> FALSE, files |-> <<>>,
     model |-> "gpt-4o-mini", systemPrompt |-> "text_generation",
     customSystemPrompt |-> "", temperature |-> "0.7", topP |-> "0.9"]

\* the destructuring defaults of generateTextStream
StreamDefaults ==
    [prompt |-> Undefined, maxTokens |-> "100", files |-> <<>>,
     model |-> "gpt-4o-mini", systemPrompt |-> "text_generation",
     customSystemPrompt |-> "", temperature |-> "0.7", topP |-> "0.9"]

\* the string FormData.append stores for a value
FormString(v) ==
    CASE v = Undefined -> "undefined"
      [] v = Null -> "null"
      [] OTHER -> v

RECURSIVE FileFields(_)
\* files.forEach(file => formData.append('files', file))
FileFields(files) ==
    IF files = <<>> THEN <<>>
    ELSE << <<"files", Head(files)>> >> \o FileFields(Tail(files))

\* generateText up to this.request: ok is FALSE when toString is called on
\* null and throws
TextForm(a) ==
    LET p == [k \in DOMAIN TextDefaults |->
                 IF Passed(a, k) THEN a[k] ELSE TextDefaults[k]]
    IN IF Null \in {p.maxTokens, p.temperature, p.topP}
       THEN [ok |-> FALSE, fields |-> <<>>]
       ELSE [ok |-> TRUE,
             fields |->
                << <<"prompt", FormString(p.prompt)>>,
                   <<"max_tokens", p.maxTokens>>,
                   <<"stream", IF p.stream THEN "true" ELSE "false">>,
                   <<"model", FormString(p.model)>>,
                   <<"system_prompt", FormString(p.systemPrompt)>>,
                   <<"custom_system_prompt", FormString(p.customSystemPrompt)>>,
                   <<"temperature", p.temperature>>,
                   <<"top_p", p.topP>> >> \o FileFields(p.files)]

\* a streaming call that passes everything on but the files
StreamArgsWithoutFiles(a) ==
    [k \in DOMAIN TextDefaults \ {"files"} |->
        IF k = "stream" THEN TRUE
        ELSE IF Passed(a, k) THEN a[k] ELSE StreamDefaults[k]]

\* the object generateTextStream passes to generateText
StreamArgs(a) ==
    [k \in DOMAIN TextDefaults |->
        IF k = "stream" THEN TRUE
        ELSE IF Passed(a, k) THEN a[k] ELSE StreamDefaults[k]]

\* the object the hook useTextGeneration passes to generateText (an argument
\* it passes as undefined is an argument that is not passed)
HookArgs(a) ==
    [k \in DOMAIN a \cup {"stream"} |-> IF k = "stream" THEN FALSE ELSE a[k]]

\* the generation requests that are tried
GenerationCalls ==
    WithArg(WithArg(WithArg(WithArg(WithArg(WithArg(WithArg(
        {[prompt |-> "hi"], [prompt |-> Undefined]},
        "maxTokens", {"500", Null}),
        "model", {"gpt-4o"}),
        "systemPrompt", {"custom"}),
        "customSystemPrompt", {"be brief"}),
        "temperature", {"0.2"}),
        "topP", {"0.5", Null}),
        "files", {<<>>, <<"f1", "f2">>})

InitGenerate ==
    /\ hook = IdleDefaults
    /\ pc = [g \in Calls |-> "idle"]
    /\ nEvents = 0
    /\ ownFrags = <<>>
    /\ clean = TRUE
    /\ term = [g \in Calls |-> "none"]
    /\ cancelled = [g \in Calls |-> FALSE]
    /\ ReaderIdle
    /\ RequestIdle
    /\ args \in GenerationCalls
    /\ built = <<>>
    /\ AudioIdle
    /\ UiIdle

\* the same request sent once by generateText and once by generateTextStream
BuildGenerate ==
    /\ built = <<>>
    /\ built' = [text |-> TextForm(HookArgs(args)),
                 stream |-> TextForm(StreamArgs(args))]
    /\ UNCHANGED <<hvars, rvars, qvars, args, avars, uvars>>

NextGenerate == BuildGenerate

SpecGenerate == InitGenerate /\ [][NextGenerate]_vars

\* C22: for the same request the two paths fail together or send forms that
\* have the same fields in the same order with the same values, except for
\* stream, which is 'true' on one path and 'false' on the other.
C22_SameFormButStream ==
    built # <<>> =>
        /\ built.text.ok = built.stream.ok
        /\ Len(built.text.fields) = Len(built.stream.fields)
        /\ \A i \in 1..Len(built.text.fields) :
             LET t == built.text.fields[i]
                 st == built.stream.fields[i]
             IN /\ t[1] = st[1]
                /\ IF t[1] = "stream" THEN t[2] = "false" /\ st[2] = "true"
                   ELSE t[2] = st[2]

\* a request with two files and no maxTokens: both forms have the default
C22_Witness ==
    /\ built # <<>> /\ built.stream.ok
    /\ "maxTokens" \notin DOMAIN args /\ "files" \in DOMAIN args
    /\ Len(built.stream.fields) = 10
    /\ built.stream.fields[2] = <<"max_tokens", "100">>
    /\ built.stream.fields[10] = <<"files", "f2">>

(***************************************************************************)
(* ApiService.generateNotebookLMAudio.  custom_text is not passed, null,   *)
(* or a string, which is a sequence of code points.                        *)
(***************************************************************************)
\* the code points String.prototype.trim removes
WhiteSpace ==
    {9, 10, 11, 12, 13, 32, 160, 5760, 8232, 8233, 8239, 8287, 12288, 65279}
        \cup 8192..8202

RECURSIVE TrimStart(_)
TrimStart(t) ==
    IF t # <<>> /\ Head(t) \in WhiteSpace THEN TrimStart(Tail(t)) ELSE t

RECURSIVE TrimEnd(_)
TrimEnd(t) ==
    IF t # <<>> /\ t[Len(t)] \in WhiteSpace
    THEN TrimEnd(SubSeq(t, 1, Len(t) - 1))
    ELSE t

\* a trim that removes nothing
NoTrim(t) == t

\* custom_text.trim()
Trim(t) == TrimEnd(TrimStart(t))

\* !custom_text || !custom_text.trim()
TextMissing(a) == a.kind # "string" \/ a.text = <<>> \/ Trim(a.text) = <<>>

\* generateNotebookLMAudio up to this.request: the error thrown, if any, and
\* the requests issued
NotebookCall(a) ==
    IF TextMissing(a)
    THEN [error |-> "Custom text is required", requests |-> <<>>]
    ELSE [error |-> Null,
          requests |-> << [method |-> "POST",
                           endpoint |-> "/api/notebooklm/generate",
                           custom_text |-> Trim(a.text)] >>]

\* the strings that are tried: letters, spaces, line feeds, no-break spaces
Texts == UNION {[1..n -> {97, 32, 10, 160}] : n \in 0..MaxText}

NotebookCalls ==
    {[kind |-> "undefined", text |-> <<>>], [kind |-> "null", text |-> <<>>]}
        \cup {[kind |-> "string", text |-> t] : t \in Texts}

InitNotebook ==
    /\ hook = IdleDefaults
    /\ pc = [g \in Calls |-> "idle"]
    /\ nEvents = 0
    /\ ownFrags = <<>>
    /\ clean = TRUE
    /\ term = [g \in Calls |-> "none"]
    /\ cancelled = [g \in Calls |-> FALSE]
    /\ ReaderIdle
    /\ RequestIdle
    /\ args \in NotebookCalls
    /\ built = <<>>
    /\ AudioIdle
    /\ UiIdle

\* generateNotebookLMAudio({custom_text}) up to await this.request
CallNotebook ==
    /\ built = <<>>
    /\ built' = NotebookCall(args)
    /\ UNCHANGED <<hvars, rvars, qvars, args, avars, uvars>>

NextNotebook == CallNotebook

SpecNotebook == InitNotebook /\ [][NextNotebook]_vars

\* the positions of args.text that hold something else than white space
Inked == {i \in 1..Len(args.text) : args.text[i] \notin WhiteSpace}

\* C25: a call whose custom_text is missing, empty or white space only fails
\* with 'Custom text is required' and issues no request; any other call
\* issues exactly one POST whose custom_text is the text from its first to
\* its last character that is not white space.
C25_RequiresCustomText ==
    built # <<>> =>
        IF args.kind # "string" \/ Inked = {}
        THEN built.error = "Custom text is required" /\ built.requests = <<>>
        ELSE /\ built.error = Null
             /\ Len(built.requests) = 1
             /\ built.requests[1].method = "POST"
             /\ \E i, j \in Inked :
                  /\ \A k \in Inked : i <= k /\ k <= j
                  /\ built.requests[1].custom_text = SubSeq(args.text, i, j)

\* a text with white space on both sides has been sent without it
C25_Witness ==
    /\ built # <<>> /\ args.kind = "string"
    /\ args.text = <<32, 97, 10>>
    /\ Len(built.requests) = 1
    /\ built.requests[1].custom_text = <<97>>

(***************************************************************************)
(* TextToSpeech: handleGenerateAdvancedAudio and its simulated progress.   *)
(* ApiService has no method generateAdvancedAudio, so the call throws a    *)
(* TypeError before anything is awaited and the handler runs to its end in *)
(* one step; the interval it has set keeps firing afterwards.              *)
(***************************************************************************)
Runs == 1..MaxRuns

\* progressUpdates
ProgressUpdates ==
    << [progress |-> 10, status |-> "uploading",
        step |-> "Uploading content to server...", time |-> "4-12 mins"],
       [progress |-> 25, status |-> "processing",
        step |-> "Processing text content...", time |-> "3-10 mins"],
       [progress |-> 40, status |-> "generating",
        step |-> "Generating conversation audio...", time |-> "2-8 mins"],
       [progress |-> 70, status |-> "generating",
        step |-> "Finalizing audio generation...", time |-> "1-3 mins"],
       [progress |-> 85, status |-> "downloading",
        step |-> "Preparing download...", time |-> "30 secs" ] >>

\* how apiService.generateAdvancedAudio(...) can end
AudioOutcomes == {"throws"}

\* the message of the TypeError
NotAFunctionMessage == "apiService.generateAdvancedAudio is not a function"

\* progressInterval as the catch block sees it: the let of line 160, which is
\* never assigned, because the const of line 177 declares another variable
OuterProgressInterval == Undefined

\* the setters before the try block
AudioStart(a) ==
    [a EXCEPT !.generating = TRUE, !.error = Null, !.result = Null,
              !.progress = 0, !.status = "preparing",
              !.step = "Preparing content for processing...",
              !.time = "5-15 mins"]

\* the setters after the await, then the finally block
AudioSuccess(a) ==
    [a EXCEPT !.progress = 100, !.status = "completed",
              !.step = "Audio generation completed successfully!",
              !.time = "", !.result = "response", !.generating = FALSE]

\* the catch block, then the finally block
AudioFailure(a, msg) ==
    [a EXCEPT !.progress = 0, !.status = "error",
              !.step = "Generation failed. Please try again.",
              !.time = "", !.error = msg, !.generating = FALSE]

\* the callback of setInterval for its n-th firing
AudioTick(a, n) ==
    IF n <= Len(ProgressUpdates)
    THEN [a EXCEPT !.progress = ProgressUpdates[n].progress,
                   !.status = ProgressUpdates[n].status,
                   !.step = ProgressUpdates[n].step,
                   !.time = ProgressUpdates[n].time]
    ELSE a

InitAudio ==
    /\ hook = IdleDefaults
    /\ pc = [g \in Calls |-> "idle"]
    /\ nEvents = 0
    /\ ownFrags = <<>>
    /\ clean = TRUE
    /\ term = [g \in Calls |-> "none"]
    /\ cancelled = [g \in Calls |-> FALSE]
    /\ ReaderIdle
    /\ RequestIdle
    /\ PureIdle
    /\ AudioIdle
    /\ UiIdle

\* the user edits the custom text
EditCustomText(t) ==
    /\ ~audio.generating
    /\ audio.customText # t
    /\ audio' = [audio EXCEPT !.customText = t]
    /\ UNCHANGED <<hvars, rvars, qvars, pvars, uvars, ticks>>

\* handleGenerateAdvancedAudio: the submit button is disabled while the text
\* is blank; the interval of the run is cleared where the handler reaches a
\* clearInterval with its id
GenerateAdvancedAudio(outcome) ==
    /\ Len(ticks) < MaxRuns
    /\ ~audio.generating
    /\ audio.customText # ""
    /\ IF outcome = "throws"
       THEN /\ audio' = AudioFailure(AudioStart(audio), NotAFunctionMessage)
            /\ ticks' = Append(ticks, [n |-> 0, running |-> ~Truthy(OuterProgressInterval)])
       ELSE /\ audio' = AudioSuccess(AudioStart(audio))
            /\ ticks' = Append(ticks, [n |-> 0, running |-> FALSE])
    /\ UNCHANGED <<hvars, rvars, qvars, pvars, uvars>>

\* two seconds have passed on the interval of run r
IntervalFires(r) ==
    /\ r \in 1..Len(ticks)
    /\ ticks[r].running
    /\ ticks[r].n <= Len(ProgressUpdates)
    /\ audio' = AudioTick(audio, ticks[r].n + 1)
    /\ ticks' = [ticks EXCEPT ![r].n = @ + 1]
    /\ UNCHANGED <<hvars, rvars, qvars, pvars, uvars>>

NextAudio ==
    \/ \E t \in {"", "some text", "other text"} : EditCustomText(t)
    \/ \E outcome \in AudioOutcomes : GenerateAdvancedAudio(outcome)
    \/ \E r \in Runs : IntervalFires(r)

SpecAudio == InitAudio /\ [][NextAudio]_vars

\* C27: once the handler has set the status error (or completed), no firing
\* of an interval changes progress, progressStatus, currentStep or
\* estimatedTime.
C27_TimerStoppedAfterEnd ==
    [][\A r \in Runs :
          (audio.status \in {"error", "completed"} /\ IntervalFires(r)) =>
              /\ audio'.progress = audio.progress /\ audio'.status = audio.status
              /\ audio'.step = audio.step /\ audio'.time = audio.time]_vars

(***************************************************************************)
(* useTextToSpeech (hooks/useApi.js): the object URLs of generated audio.  *)
(* Object URLs are numbered in the order URL.createObjectURL returns them. *)
(***************************************************************************)
\* useStreamingTextGeneration is not modelled
HookIdle ==
    /\ hook = IdleDefaults
    /\ pc = [g \in Calls |-> "idle"]
    /\ nEvents = 0
    /\ ownFrags = <<>>
    /\ clean = TRUE
    /\ term = [g \in Calls |-> "none"]
    /\ cancelled = [g \in Calls |-> FALSE]

\* how a call of apiService.textToSpeech ends: a response with success and
\* audio_base64, a response without one of them, or a rejection
SpeechOutcomes == {"audio", "silent", "fails"}

\* URL.revokeObjectURL(u), guarded by if (audioUrl)
Revoke(s, u) ==
    IF u # NoUrl THEN [s EXCEPT !.revoked = @ \cup {u}] ELSE s

\* setAudioUrl(u) and the commit that follows: when the dependency audioUrl
\* has changed, the cleanup of the effect runs with the value it closed over
SetAudioUrl(s, u) ==
    IF u = s.audioUrl THEN s ELSE [Revoke(s, s.audioUrl) EXCEPT !.audioUrl = u]

\* the state updates of one step; those of an unmounted component are dropped
SetSpeech(s, result, loading, error, u) ==
    IF s.mounted
    THEN [SetAudioUrl(s, u) EXCEPT !.result = result, !.loading = loading,
                                   !.error = error]
    ELSE s

\* generateSpeech up to its await
GenerateSpeech ==
    /\ speech.mounted
    /\ Len(speech.calls) < MaxRuns
    /\ speech' = [SetSpeech(speech, "null", TRUE, "null", NoUrl)
                     EXCEPT !.calls = Append(@, "pending")]
    /\ UNCHANGED <<hvars, rvars, qvars, pvars, avars, chatFiles, chat>>

\* generateSpeech after its await
SpeechSettles(c, outcome) ==
    /\ c \in 1..Len(speech.calls)
    /\ speech.calls[c] = "pending"
    /\ LET done == [speech EXCEPT !.calls[c] = outcome]
           url  == done.created + 1
       IN  speech' =
             CASE outcome = "audio" ->
                    SetSpeech([done EXCEPT !.created = url], outcome, FALSE,
                              done.error, url)
               [] outcome = "silent" ->
                    SetSpeech(done, outcome, FALSE, done.error, done.audioUrl)
               [] outcome = "fails" ->
                    SetSpeech(done, done.result, FALSE, "message", done.audioUrl)
    /\ UNCHANGED <<hvars, rvars, qvars, pvars, avars, chatFiles, chat>>

\* reset of useTextToSpeech
ResetSpeech ==
    /\ speech.mounted
    /\ speech' = SetSpeech(Revoke(speech, speech.audioUrl), "null", FALSE, "null",
                           NoUrl)
    /\ UNCHANGED <<hvars, rvars, qvars, pvars, avars, chatFiles, chat>>

\* the component unmounts: the cleanup of the effect runs a last time
Unmount ==
    /\ speech.mounted
    /\ speech' = [Revoke(speech, speech.audioUrl) EXCEPT !.mounted = FALSE]
    /\ UNCHANGED <<hvars, rvars, qvars, pvars, avars, chatFiles, chat>>

InitSpeech ==
    /\ HookIdle
    /\ ReaderIdle
    /\ RequestIdle
    /\ PureIdle
    /\ AudioIdle
    /\ UiIdle

NextSpeech ==
    \/ GenerateSpeech
    \/ \E c \in Runs, outcome \in SpeechOutcomes : SpeechSettles(c, outcome)
    \/ ResetSpeech
    \/ Unmount

SpecSpeech == InitSpeech /\ [][NextSpeech]_vars

\* the URL the mounted hook returns as audioUrl
CurrentUrl == IF speech.mounted THEN speech.audioUrl ELSE NoUrl

\* C28: every object URL created so far that is not the current audioUrl
\* has been revoked, and the current audioUrl has not been revoked.
C28_RevokedUnlessCurrent ==
    /\ \A u \in 1..speech.created : u # CurrentUrl => u \in speech.revoked
    /\ CurrentUrl \notin speech.revoked

(***************************************************************************)
(* The attached files of ChatInterface: a file is its size.                *)
(***************************************************************************)
\* a file at the size limit and one above it
Sizes == {MaxFileSize, MaxFileSize + 1}

\* what one selection, paste or drop can hold
Selections == UNION {[1..n -> Sizes] : n \in 0..(MaxFiles + 1)}

\* array.filter(file => file.size <= env.upload.maxFileSize)
RECURSIVE ValidSized(_)
ValidSized(fs) ==
    IF fs = <<>> THEN <<>>
    ELSE IF Head(fs) <= MaxFileSize THEN <<Head(fs)>> \o ValidSized(Tail(fs))
         ELSE ValidSized(Tail(fs))

\* array.slice(0, n)
Slice(fs, n) == SubSeq(fs, 1, IF Len(fs) < n THEN Len(fs) ELSE n)

\* prev.filter((_, i) => i !== index)
Without(fs, i) == SubSeq(fs, 1, i - 1) \o SubSeq(fs, i + 1, Len(fs))

\* handleFileChange: the selection of the file picker
HandleFileChange(sel) ==
    /\ chatFiles' = IF Len(sel) > MaxFiles \/ ValidSized(sel) # sel
                    THEN chatFiles
                    ELSE [chatFiles EXCEPT !.files = sel]
    /\ UNCHANGED <<hvars, rvars, qvars, pvars, avars, speech, chat>>

\* handlePaste of useImagePaste with the callback ChatInterface passes to it
PasteImages(sel) ==
    /\ sel # <<>>
    /\ Len(chatFiles.files) <= MaxFiles
    /\ chatFiles' = [files |-> chatFiles.files \o sel, showImageUpload |-> TRUE]
    /\ UNCHANGED <<hvars, rvars, qvars, pvars, avars, speech, chat>>

\* handleImagesAdd, called by the drop zone and the picker of
\* ImageUploadZone, which is rendered while showImageUpload holds
HandleImagesAdd(sel) ==
    /\ chatFiles.showImageUpload
    /\ sel # <<>>
    /\ Len(chatFiles.files) <= MaxFiles
    /\ chatFiles' = [chatFiles EXCEPT
                        !.files = @ \o ValidSized(Slice(sel, MaxFiles))]
    /\ UNCHANGED <<hvars, rvars, qvars, pvars, avars, speech, chat>>

\* handleRemoveFile
HandleRemoveFile(i) ==
    /\ i \in 1..Len(chatFiles.files)
    /\ chatFiles' = [files |-> Without(chatFiles.files, i),
                     showImageUpload |-> IF Len(chatFiles.files) <= 1
                                         THEN FALSE
                                         ELSE chatFiles.showImageUpload]
    /\ UNCHANGED <<hvars, rvars, qvars, pvars, avars, speech, chat>>

\* handleToggleImageUpload
HandleToggleImageUpload ==
    /\ chatFiles' = [files |-> IF chatFiles.showImageUpload THEN <<>>
                               ELSE chatFiles.files,
                     showImageUpload |-> ~chatFiles.showImageUpload]
    /\ UNCHANGED <<hvars, rvars, qvars, pvars, avars, speech, chat>>

InitFiles ==
    /\ HookIdle
    /\ ReaderIdle
    /\ RequestIdle
    /\ PureIdle
    /\ AudioIdle
    /\ UiIdle

NextFiles ==
    \/ \E sel \in Selections : HandleFileChange(sel)
    \/ \E sel \in Selections : PasteImages(sel)
    \/ \E sel \in Selections : HandleImagesAdd(sel)
    \/ \E i \in 1..(2 * MaxFiles + 1) : HandleRemoveFile(i)
    \/ HandleToggleImageUpload

SpecFiles == InitFiles /\ [][NextFiles]_vars

\* C29: the list of attached files holds at most env.upload.maxFiles files
\* and no file larger than env.upload.maxFileSize.
C29_WithinLimits ==
    /\ Len(chatFiles.files) <= MaxFiles
    /\ \A i \in 1..Len(chatFiles.files) : chatFiles.files[i] <= MaxFileSize

(***************************************************************************)
(* ChatInterface in non-streaming mode: handleSubmit, useTextGeneration    *)
(* and the effect on result.  A prompt is a sequence of character codes.   *)
(***************************************************************************)
\* what the JSON of a successful response can be: an object with a response
\* text, with an empty one, without the member, or null
ChatBodies ==
    {[kind |-> "object", response |-> "answer"],
     [kind |-> "object", response |-> ""],
     [kind |-> "object", response |-> Undefined],
     [kind |-> "null"]}

\* messages of the errors generateText rejects with
ChatErrors == {"Failed to fetch", "Request timeout after 30000ms"}

\* result && result.response
HasResponse(result) == result.kind = "object" /\ Truthy(result.response)

\* the effect on [result, ...]: an assistant message, then reset()
ResponseEffect(c) ==
    IF HasResponse(c.result)
    THEN [c EXCEPT !.messages = Append(@, [type |-> "assistant",
                                           content |-> c.result.response]),
                   !.result = [kind |-> "null"], !.loading = FALSE]
    ELSE c

\* handleSubmit up to its await, with generateText up to its await; it
\* returns at once when the prompt is blank; the textarea and the button are
\* disabled while loading
ChatSubmit(p) ==
    /\ ~chat.loading
    /\ chat.submits < MaxRuns
    /\ chat' = IF Trim(p) = <<>> THEN chat
               ELSE [chat EXCEPT
                        !.messages = Append(@, [type |-> "user",
                                                content |-> Trim(p)]),
                        !.loading = TRUE, !.result = [kind |-> "null"],
                        !.submits = @ + 1]
    /\ UNCHANGED <<hvars, rvars, qvars, pvars, avars, speech, chatFiles>>

\* apiService.generateText resolves: setResult, setLoading(false), then the
\* effect of the next commit
ChatResolves(body) ==
    /\ chat.loading
    /\ chat' = ResponseEffect([chat EXCEPT !.result = body, !.loading = FALSE])
    /\ UNCHANGED <<hvars, rvars, qvars, pvars, avars, speech, chatFiles>>

\* apiService.generateText rejects: the catch block of handleSubmit
ChatRejects(message) ==
    /\ chat.loading
    /\ chat' = [chat EXCEPT
                   !.messages = Append(@, [type |-> "error",
                                           content |-> "Lỗi: " \o message]),
                   !.loading = FALSE]
    /\ UNCHANGED <<hvars, rvars, qvars, pvars, avars, speech, chatFiles>>

InitChat ==
    /\ HookIdle
    /\ ReaderIdle
    /\ RequestIdle
    /\ PureIdle
    /\ AudioIdle
    /\ UiIdle

NextChat ==
    \/ \E p \in Texts : ChatSubmit(p)
    \/ \E body \in ChatBodies : ChatResolves(body)
    \/ \E message \in ChatErrors : ChatRejects(message)

SpecChat == InitChat /\ [][NextChat]_vars

\* C30: once the generation call has settled, the messages are one user
\* message per submitted non-blank prompt, each followed by exactly one
\* assistant or error message.
C30_OneReplyPerPrompt ==
    ~chat.loading =>
        /\ Len(chat.messages) = 2 * chat.submits
        /\ \A i \in 1..Len(chat.messages) :
              IF i % 2 = 1 THEN chat.messages[i].type = "user"
              ELSE chat.messages[i].type \in {"assistant", "error"}

====
